---- MODULE Spec2Model ----
(***************************************************************************)
(* Model of the ImageCompressor React component: the component state       *)
(* (image, loading), the promise / callback chain of compressImage, the    *)
(* resize computation, the data-URL size estimate, the download handler    *)
(* and the reduction percentage rendered from the held result.             *)
(***************************************************************************)
EXTENDS Integers, Sequences, FiniteSets

\* ------------------------------------------------------------------ bounds

\* number of file selections a behaviour may contain
MaxOps == 2
\* source dimensions 1..SmallDim are enumerated for the resize computation
SmallDim == 16
\* so are the multiples of 100 up to 100 * DimSteps
DimSteps == 30
\* and the dimensions within Margin of the cap and of twice the cap
Margin == 16

\* ------------------------------------------------------- program constants

maxWidth == 1200
maxHeight == 1200

\* ------------------------------------------------------------ input files

\* A File as the handlers see it: name, size (bytes), and what the platform
\* decoder makes of its content (decodable, natural width and height).
MkFile(n, s, d, w, h) ==
  [name |-> n, size |-> s, decodable |-> d, width |-> w, height |-> h]

\* Files the user may pick in the component's state machine.
Files ==
  { MkFile("wide.jpg", 4000, TRUE, 2400, 1200),
    MkFile("small.png", 202, TRUE, 600, 400),
    MkFile("strip.png", 1000, TRUE, 2401, 1),
    MkFile("notes.txt", 123, FALSE, 0, 0) }

\* Source dimensions enumerated for the resize computation.
Dims ==
  (1 .. SmallDim) \cup {100 * k : k \in 1 .. DimSteps}
    \cup ((maxWidth - Margin) .. (maxWidth + Margin))
    \cup ((2 * maxWidth - Margin) .. (2 * maxWidth + Margin))

\* Lengths in bytes the JPEG encoder may produce for a non-empty canvas.
JpegByteCounts == {186, 1683}

\* ------------------------------------------------------------ pure steps

\* Math.round(a / b) for integers a >= 0, b > 0: the quotient of two integers
\* below 2^31 is correctly rounded and a tie n + 1/2 is exact in a double, so
\* the double result rounds as the exact quotient does (half up).
RoundDiv(a, b) == (2 * a + b) \div (2 * b)

\* Resize with Math.floor in place of Math.round
ResizeFloor(w, h) ==
  IF w > h
    THEN IF w > maxWidth
           THEN [width |-> maxWidth, height |-> (h * maxWidth) \div w]
           ELSE [width |-> w, height |-> h]
    ELSE IF h > maxHeight
           THEN [width |-> (w * maxHeight) \div h, height |-> maxHeight]
           ELSE [width |-> w, height |-> h]

\* Resize without the width > maxWidth and height > maxHeight tests
ResizeNoCap(w, h) ==
  IF w > h
    THEN [width |-> maxWidth, height |-> RoundDiv(h * maxWidth, w)]
    ELSE [width |-> RoundDiv(w * maxHeight, h), height |-> maxHeight]

\* The width and height the canvas is given for a w x h bitmap.
Resize(w, h) ==
  IF w > h
    THEN IF w > maxWidth
           THEN [width |-> maxWidth, height |-> RoundDiv(h * maxWidth, w)]
           ELSE [width |-> w, height |-> h]
    ELSE IF h > maxHeight
           THEN [width |-> RoundDiv(w * maxHeight, h), height |-> maxHeight]
           ELSE [width |-> w, height |-> h]

\* canvas.toDataURL('image/jpeg', 0.7): the URL of a canvas with no pixels is
\* the string "data:,"; otherwise it is "data:image/jpeg;base64," followed by
\* the base64 text of the n encoded bytes.  The URL is kept as the canvas size,
\* the encoded byte count and the file whose pixels were drawn.
EncodedByteCounts(canvas) ==
  IF canvas.width = 0 \/ canvas.height = 0 THEN {0} ELSE JpegByteCounts

ToDataURL(canvas, n, file) ==
  [width |-> canvas.width, height |-> canvas.height, bytes |-> n, src |-> file]

\* compressedDataUrl.length
UrlLength(url) ==
  IF url.width = 0 \/ url.height = 0
    THEN 6
    ELSE 23 + 4 * ((url.bytes + 2) \div 3)

\* Math.round((compressedDataUrl.length * 3) / 4)
EstimateSize(url) == RoundDiv(UrlLength(url) * 3, 4)

\* CompressedImage with the two sizes exchanged
CompressedImageSwapped(file, url) ==
  [originalSize |-> EstimateSize(url), compressedSize |-> file.size,
   compressedDataUrl |-> url, name |-> file.name]

\* the object compressImage resolves with
CompressedImage(file, url) ==
  [originalSize |-> file.size, compressedSize |-> EstimateSize(url),
   compressedDataUrl |-> url, name |-> file.name]

\* ------------------------------------------- double-precision arithmetic

\* The rendered reduction is computed in IEEE-754 doubles.  The magnitude of
\* a double is kept as a fixed-point numeral: a tuple of NLimbs digits in base
\* Base = 2^LimbBits, IntLimbs of them before the point (digit i has weight
\* Base^(IntLimbs - i)).  Every double the expression produces for sizes
\* below 2^21 has its 53 significant bits inside these positions.
LimbBits == 10
Base == 2 ^ LimbBits
IntLimbs == 3
FracLimbs == 8
NLimbs == IntLimbs + FracLimbs
SigBits == 53

Zeros(k) == [i \in 1 .. k |-> 0]

Limb(x, i) == IF i <= NLimbs THEN x[i] ELSE 0

\* position (1 = most significant bit of digit 1) of the leading 1 of x # 0
Leading(x) ==
  LET i == CHOOSE k \in 1 .. NLimbs : x[k] # 0 /\ \A j \in 1 .. (k - 1) : x[j] = 0
      e == CHOOSE k \in 0 .. (LimbBits - 1) : 2 ^ k <= x[i] /\ x[i] < 2 ^ (k + 1)
  IN i * LimbBits - e

RECURSIVE AddAt(_, _, _)
\* digits 1..i of x + amount * (weight of digit i)
AddAt(x, i, amount) ==
  IF i = 0 THEN <<>>
  ELSE IF x[i] + amount >= Base
    THEN AddAt(x, i - 1, 1) \o <<x[i] + amount - Base>>
    ELSE AddAt(x, i - 1, 0) \o <<x[i] + amount>>

\* Round to nearest, ties to even, to SigBits significant bits; sticky tells
\* whether the exact value has non-zero bits below the last digit.
RoundNearestEven(x, sticky) ==
  IF \A i \in 1 .. NLimbs : x[i] = 0 THEN x
  ELSE
    LET last == Leading(x) + SigBits - 1         \* the last bit that is kept
        j == (last - 1) \div LimbBits + 1        \* its digit
        s == j * LimbBits - last                 \* bits of digit j below it
    IN IF j > NLimbs THEN x
       ELSE
         LET unit == 2 ^ s
             tail == (x[j] % unit) * Base + Limb(x, j + 1)
             half == 2 ^ (s + LimbBits - 1)
             lower == sticky \/ \E i \in (j + 2) .. NLimbs : x[i] # 0
             odd == (x[j] \div unit) % 2 = 1
             up == tail > half \/ (tail = half /\ (lower \/ odd))
             cut == [i \in 1 .. j |-> IF i < j THEN x[i] ELSE x[j] - (x[j] % unit)]
         IN AddAt(cut, j, IF up THEN unit ELSE 0) \o Zeros(NLimbs - j)

\* the IntLimbs digits of the integer n
IntegerLimbs(n) == [i \in 1 .. IntLimbs |-> (n \div (Base ^ (IntLimbs - i))) % Base]

RECURSIVE FractionLimbs(_, _, _)
\* the next k digits of r / o for 0 <= r < o, followed by the final remainder
FractionLimbs(r, o, k) ==
  IF k = 0 THEN <<r>>
  ELSE <<(r * Base) \div o>> \o FractionLimbs((r * Base) % o, o, k - 1)

\* the double c / o for integers c >= 0, o > 0
Divide(c, o) ==
  LET f == FractionLimbs(c % o, o, FracLimbs)
  IN RoundNearestEven(IntegerLimbs(c \div o) \o SubSeq(f, 1, FracLimbs),
                      f[FracLimbs + 1] # 0)

\* the value of digits 1..IntLimbs of x
IntegerPart(x) == x[1] * Base * Base + x[2] * Base + x[3]

RECURSIVE Complement(_, _, _)
\* digits IntLimbs+1..i of 1 - 0.f, where f is the fraction of x, given the
\* borrow into digit i
Complement(x, i, borrow) ==
  IF i = IntLimbs THEN <<>>
  ELSE IF x[i] + borrow = 0
    THEN Complement(x, i - 1, 0) \o <<0>>
    ELSE Complement(x, i - 1, 1) \o <<Base - x[i] - borrow>>

\* the double 1 - q for a double q >= 0, as sign and magnitude
OneMinus(q) ==
  IF IntegerPart(q) >= 1
    THEN \* q >= 1: the magnitude is q - 1
      LET m == IntegerLimbs(IntegerPart(q) - 1) \o SubSeq(q, IntLimbs + 1, NLimbs)
      IN [neg |-> \E i \in 1 .. NLimbs : m[i] # 0,
          mag |-> RoundNearestEven(m, FALSE)]
    ELSE IF \A i \in 1 .. NLimbs : q[i] = 0
      THEN [neg |-> FALSE, mag |-> IntegerLimbs(1) \o Zeros(FracLimbs)]
      ELSE \* 0 < q < 1
        [neg |-> FALSE,
         mag |-> RoundNearestEven(Zeros(IntLimbs) \o Complement(q, NLimbs, 0), FALSE)]

RECURSIVE TimesFrom(_, _, _, _)
\* digits 1..i of x * m given the carry into digit i
TimesFrom(x, m, i, carry) ==
  IF i = 0 THEN <<>>
  ELSE TimesFrom(x, m, i - 1, (m * x[i] + carry) \div Base)
         \o <<(m * x[i] + carry) % Base>>

\* the double x * 100 for a signed double x
Times100(x) ==
  [neg |-> x.neg,
   mag |-> RoundNearestEven(TimesFrom(x.mag, 100, NLimbs, 0), FALSE)]

\* Math.trunc(x), as React prints it
MathTrunc(x) == IF x.neg THEN 0 - IntegerPart(x.mag) ELSE IntegerPart(x.mag)

\* Math.round(x), as React prints it (-0 prints as 0): floor(x + 1/2)
MathRound(x) ==
  LET n == IntegerPart(x.mag)
      first == x.mag[IntLimbs + 1]
      half == first >= Base \div 2
      below == first % (Base \div 2) # 0
                 \/ \E i \in (IntLimbs + 2) .. NLimbs : x.mag[i] # 0
  IN IF x.neg
       THEN 0 - (IF half /\ below THEN n + 1 ELSE n)
       ELSE IF half THEN n + 1 ELSE n

\* Reduction with Math.trunc in place of Math.round
ReductionTruncated(compressedSize, originalSize) ==
  MathTrunc(Times100(OneMinus(Divide(compressedSize, originalSize))))

\* Math.round((1 - image.compressedSize / image.originalSize) * 100)
Reduction(compressedSize, originalSize) ==
  MathRound(Times100(OneMinus(Divide(compressedSize, originalSize))))

\* ------------------------------------------------------------------ state

VARIABLES
  image,     \* useState<CompressedImage | null>: <<>> or <<result>>
  loading,   \* useState(false)
  ops,       \* the handleFileChange calls so far, in selection order:
             \*   [file, pc], pc in reading / decoding / failed / done
  resolved,  \* history: the results the calls resolved with, in that order
  download   \* the last link handleDownload clicked: <<>> or <<[href, download]>>

vars == <<image, loading, ops, resolved, download>>

Held == image # <<>>

Pending(i) == ops[i].pc \in {"reading", "decoding"}

Init ==
  /\ image = <<>>
  /\ loading = FALSE
  /\ ops = <<>>
  /\ resolved = <<>>
  /\ download = <<>>

\* ---------------------------------------------------------------- actions

\* onChange with an empty file list: `if (!file) return;`
HandleFileChangeNoFile == UNCHANGED vars

\* HandleFileChange that also calls setImage(null)
HandleFileChangeClears(file) ==
  /\ Len(ops) < MaxOps
  /\ loading' = TRUE
  /\ image' = <<>>
  /\ ops' = Append(ops, [file |-> file, pc |-> "reading"])
  /\ UNCHANGED <<resolved, download>>

\* onChange with a file: setLoading(true), then compressImage(file) creates the
\* FileReader and starts readAsDataURL; the handler suspends at the await.
HandleFileChange(file) ==
  /\ Len(ops) < MaxOps
  /\ loading' = TRUE
  /\ ops' = Append(ops, [file |-> file, pc |-> "reading"])
  /\ UNCHANGED <<image, resolved, download>>

\* reader.onload: a new Image is given the file's data URL as src.
ReaderOnload(i) ==
  /\ ops[i].pc = "reading"
  /\ ops' = [ops EXCEPT ![i].pc = "decoding"]
  /\ UNCHANGED <<image, loading, resolved, download>>

\* ImgOnload that drops the result unless its call is the latest selection
ImgOnloadLatestOnly(i) ==
  /\ ops[i].pc = "decoding"
  /\ ops[i].file.decodable
  /\ LET file == ops[i].file
         canvas == Resize(file.width, file.height)
     IN \E n \in EncodedByteCounts(canvas) :
          LET compressed == CompressedImage(file, ToDataURL(canvas, n, file))
          IN /\ image' = IF i = Len(ops) THEN <<compressed>> ELSE image
             /\ resolved' = Append(resolved, [op |-> i, result |-> compressed])
  /\ loading' = FALSE
  /\ ops' = [ops EXCEPT ![i].pc = "done"]
  /\ UNCHANGED download

\* img.onload, and the continuation of handleFileChange that the resolve
\* schedules: resize, draw, encode, resolve; setImage(compressed);
\* setLoading(false).
ImgOnload(i) ==
  /\ ops[i].pc = "decoding"
  /\ ops[i].file.decodable
  /\ LET file == ops[i].file
         canvas == Resize(file.width, file.height)
     IN \E n \in EncodedByteCounts(canvas) :
          LET compressed == CompressedImage(file, ToDataURL(canvas, n, file))
          IN /\ image' = <<compressed>>
             /\ resolved' = Append(resolved, [op |-> i, result |-> compressed])
  /\ loading' = FALSE
  /\ ops' = [ops EXCEPT ![i].pc = "done"]
  /\ UNCHANGED download

\* ImgOnerror with a handler that calls setImage(null)
ImgOnerrorClears(i) ==
  /\ ops[i].pc = "decoding"
  /\ ~ops[i].file.decodable
  /\ ops' = [ops EXCEPT ![i].pc = "failed"]
  /\ image' = <<>>
  /\ UNCHANGED <<loading, resolved, download>>

\* The image's error event for an undecodable file: no handler is registered,
\* the promise is never settled and the await never returns.
ImgOnerror(i) ==
  /\ ops[i].pc = "decoding"
  /\ ~ops[i].file.decodable
  /\ ops' = [ops EXCEPT ![i].pc = "failed"]
  /\ UNCHANGED <<image, loading, resolved, download>>

\* click on the download button
HandleDownload ==
  /\ Held
  /\ download' = <<[href |-> image[1].compressedDataUrl,
                    download |-> <<"compressed-", image[1].name>>]>>
  /\ UNCHANGED <<image, loading, ops, resolved>>

Next ==
  \/ HandleFileChangeNoFile
  \/ \E file \in Files : HandleFileChange(file)
  \/ \E i \in DOMAIN ops : ReaderOnload(i)
  \/ \E i \in DOMAIN ops : ImgOnload(i)
  \/ \E i \in DOMAIN ops : ImgOnerror(i)
  \/ HandleDownload

Spec == Init /\ [][Next]_vars

\* The browser delivers every event it has queued: each FileReader load, and
\* each image load or error, eventually fires.
FairSpec ==
  /\ Init
  /\ [][Next]_vars
  /\ WF_vars(\E i \in DOMAIN ops : ReaderOnload(i))
  /\ WF_vars(\E i \in DOMAIN ops : ImgOnload(i))
  /\ WF_vars(\E i \in DOMAIN ops : ImgOnerror(i))

\* ------------------------------------------------- the resize computation

\* One call of compressImage whose image is about to load, for every pair of
\* source dimensions in Dims: the state handleFileChange and reader.onload
\* leave behind for a decodable file of that size.
ResizeInit ==
  /\ image = <<>>
  /\ loading = TRUE
  /\ \E w \in Dims, h \in Dims :
       ops = <<[file |-> MkFile("picked.png", 1000, TRUE, w, h), pc |-> "decoding"]>>
  /\ resolved = <<>>
  /\ download = <<>>

ResizeNext == \E i \in DOMAIN ops : ImgOnload(i)

ResizeSpec == ResizeInit /\ [][ResizeNext]_vars

\* ------------------------------------------------------------- properties

\* the held result, its encoded image and the file it was made from
Result == image[1]
Url == image[1].compressedDataUrl
Source == image[1].compressedDataUrl.src

\* r is a / b rounded to the nearest integer, halves up
IsRoundHalfUp(r, a, b) == 2 * r * b - b <= 2 * a /\ 2 * a < 2 * r * b + b

\* C1: for a source W x H, if W > 1200 and W >= H (squares included) the
\* target is 1200 x round(H * 1200 / W); if H > 1200 and H > W it is
\* round(W * 1200 / H) x 1200; the rounding is half up, so the scaled side is
\* within 1 px of the proportional value; 2400x1200 gives 1200x600 and
\* 800x2400 gives 400x1200.
C1_ResizeScalesToCap ==
  Held =>
    LET W == Source.width
        H == Source.height
    IN /\ (W > 1200 /\ W >= H) =>
            /\ Url.width = 1200
            /\ IsRoundHalfUp(Url.height, H * 1200, W)
       /\ (H > 1200 /\ H > W) =>
            /\ Url.height = 1200
            /\ IsRoundHalfUp(Url.width, W * 1200, H)
       /\ (W = 2400 /\ H = 1200) => (Url.width = 1200 /\ Url.height = 600)
       /\ (W = 800 /\ H = 2400) => (Url.width = 400 /\ Url.height = 1200)

\* a square source above the cap has been resized
C1_Witness ==
  /\ Held
  /\ Source.width = 1201 /\ Source.height = 1201
  /\ Url.width = 1200 /\ Url.height = 1200

\* C2: a source with both sides at most 1200 keeps its dimensions (600x400
\* stays 600x400), and no target side is larger than the source side.
C2_NoUpscaling ==
  Held =>
    LET W == Source.width
        H == Source.height
    IN /\ (W <= 1200 /\ H <= 1200) => (Url.width = W /\ Url.height = H)
       /\ Url.width <= W
       /\ Url.height <= H

\* the 600x400 source has gone through the resize unchanged
C2_Witness ==
  /\ Held
  /\ Source.width = 600 /\ Source.height = 400
  /\ Url.width = 600 /\ Url.height = 400

\* C10: both target dimensions are at least 1 and at most 1200 for every
\* source, so the canvas never has a zero side.
C10_CanvasWithinBounds ==
  Held =>
    /\ 1 <= Url.width /\ Url.width <= 1200
    /\ 1 <= Url.height /\ Url.height <= 1200

\* C3: whenever a result is held, compressedSize is non-negative and is
\* length(compressedData) * 3 / 4 rounded half up for the data held in the
\* same result, and originalSize is the size of the file that data was made
\* from.
C3_SizesMatchHeldData ==
  Held =>
    /\ Result.compressedSize >= 0
    /\ IsRoundHalfUp(Result.compressedSize, UrlLength(Url) * 3, 4)
    /\ Result.originalSize = Source.size
    /\ Result.name = Source.name

\* a second result has replaced a first one made from another file, and the
\* replaced one has been downloaded
C3_Witness ==
  /\ Held
  /\ Len(resolved) = 2
  /\ resolved[1].result.name # resolved[2].result.name
  /\ download # <<>>
  /\ download[1].href # Url

\* C4: selecting an undecodable file, and everything that follows from that
\* selection, leaves the held result as it was, never completes, and no
\* result made from an undecodable file is ever held.
C4_UndecodableStep ==
  /\ (Len(ops') > Len(ops) /\ ~ops'[Len(ops')].file.decodable) => image' = image
  /\ \A i \in DOMAIN ops :
       (~ops[i].file.decodable /\ ops'[i] # ops[i]) =>
          (image' = image /\ ops'[i].pc \in {"decoding", "failed"})
  /\ Held' => image'[1].compressedDataUrl.src.decodable

C4_UndecodableLeavesResult == [][C4_UndecodableStep]_vars

\* the decode of an undecodable file selected after the held result was made
\* has failed
C4_Witness ==
  /\ Held
  /\ Len(ops) = 2
  /\ ops[1].pc = "done"
  /\ ~ops[2].file.decodable
  /\ ops[2].pc = "failed"

\* C5: after a file selection has set the busy flag, the flag eventually
\* becomes false again, also when the decode of the file fails.
C5_BusyEventuallyClears == loading ~> ~loading

\* C9: while some operation has started and not completed, the busy flag is
\* true, also when the operations of successive selections overlap.
C9_BusyWhilePending == (\E i \in DOMAIN ops : Pending(i)) => loading

\* C6: a selection leaves every pending operation pending, and the held
\* result is always the one of the operation that resolved last, whatever
\* the order of selection.
C6_Step ==
  /\ Len(ops') > Len(ops) =>
       \A i \in DOMAIN ops : Pending(i) => ops'[i] = ops[i]
  /\ \A i \in DOMAIN ops :
       (Pending(i) /\ ops'[i].pc = "done") =>
          (Held' /\ image'[1].name = ops[i].file.name)
  /\ Held' => (resolved' # <<>> /\ image'[1] = resolved'[Len(resolved')].result)

C6_LastResolvedWins == [][C6_Step]_vars

\* both operations have resolved, the later-selected one first, and the
\* result shown is the one of the file selected first
C6_Witness ==
  /\ Len(ops) = 2
  /\ ops[1].pc = "done" /\ ops[2].pc = "done"
  /\ ops[1].file.name # ops[2].file.name
  /\ resolved[1].op = 2 /\ resolved[2].op = 1
  /\ Held
  /\ Result.name = ops[1].file.name

\* C7 as stated: after a file selection no prior result is held.
C7_SelectionDestroysResult == [][Len(ops') > Len(ops) => ~Held']_vars

\* C7 as amended: the held result changes only when a decode + resize +
\* encode cycle completes, to the result of that cycle; a file selection
\* leaves it as it was, and a result once held is never dropped.
C7_Step ==
  /\ image' # image =>
       \E i \in DOMAIN ops :
         /\ ops[i].pc = "decoding" /\ ops'[i].pc = "done"
         /\ ops[i].file.decodable
         /\ Held'
         /\ image'[1].compressedDataUrl.src = ops[i].file
  /\ Len(ops') > Len(ops) => image' = image
  /\ Held => Held'

C7_ResultReplacedOnCompletion == [][C7_Step]_vars

\* a result is still held while the operation of a file selected after it
\* was made is pending
C7_Witness ==
  /\ Held
  /\ Len(ops) = 2
  /\ ops[1].pc = "done"
  /\ Pending(2)

\* the percentage the summary shows for the held result
Shown == Reduction(Result.compressedSize, Result.originalSize)

\* C8 as stated: the percentage shown is (1 - compressedSize / originalSize)
\* * 100 rounded half up, and it is negative when compressedSize exceeds
\* originalSize.
C8_ExactRoundHalfUp ==
  (Held /\ Result.originalSize > 0) =>
    /\ IsRoundHalfUp(Shown, 100 * (Result.originalSize - Result.compressedSize),
                     Result.originalSize)
    /\ Result.compressedSize > Result.originalSize => Shown < 0

\* C8 as amended: the percentage shown is within 1/2 of (1 - compressedSize /
\* originalSize) * 100 (an exact half may go either way); it is 75 for
\* 1,000,000 and 250,000; when compressedSize exceeds originalSize it is at
\* most 0, and negative once the excess is more than 0.5% of originalSize.
C8_WithinHalf ==
  /\ Reduction(250000, 1000000) = 75
  /\ (Held /\ Result.originalSize > 0) =>
       LET o == Result.originalSize
           c == Result.compressedSize
       IN /\ 2 * Shown * o - o <= 200 * (o - c)
          /\ 200 * (o - c) <= 2 * Shown * o + o
          /\ c > o => Shown <= 0
          /\ 200 * (c - o) > o => Shown < 0

\* a 4000-byte file compressed to 1700 bytes is held: exactly 57.5%
C8_Witness ==
  /\ Held
  /\ Result.originalSize = 4000
  /\ Result.compressedSize = 1700

====
